---- MODULE Spec2Model ----
(***************************************************************************)
(* Conway's Game of Life on a toroidal grid: the Universe of src/lib.rs.  *)
(* The state is one Universe (cells, back_buffer, height, width).  new is  *)
(* the initial state; set_dimensions, set_pixel, toggle_pixel, tick,       *)
(* is_alive and render are actions; the getters and the coordinate         *)
(* transforms are operators.  A Rust panic (Vec index out of range,        *)
(* remainder by zero) is a result with ok = FALSE: it is fatal, so no      *)
(* action is taken after it.  op records the last call, its arguments and  *)
(* how it ended; nops counts the calls.                                    *)
(***************************************************************************)
EXTENDS Integers, Sequences, FiniteSets

VARIABLES cells, back_buffer, height, width, op, nops

vars == <<cells, back_buffer, height, width, op, nops>>

(* ------------------------------ bounds -------------------------------- *)
\* The whole interface: largest height / width given to new and
\* set_dimensions, which is also one past the largest in-range row / column
\* given to is_alive, set_pixel and toggle_pixel; and the number of calls made
\* on one Universe after new.
MaxHeight == 2
MaxWidth == 2
MaxOps == 3
\* The generations of proper grids (no side 0): largest side, number of calls.
LifeMaxDim == 3
LifeOps == 5
\* The blinker runs: largest side of the grid, number of calls.
BlinkerMaxDim == 6
BlinkerOps == 6

(* ------------------------------ values -------------------------------- *)
Cell == {"Dead", "Alive"}

Coord(y, x) == [row |-> y, col |-> x]

Ok(v) == [ok |-> TRUE, val |-> v]
Panic == [ok |-> FALSE, val |-> "panic"]

\* vec![v; n]
vec(v, n) == [i \in 1..n |-> v]

Not(c) == IF c = "Dead" THEN "Alive" ELSE "Dead"

is_alive_cell(c) == c = "Alive"

\* The Universe the variables hold.
U == [cells |-> cells, back_buffer |-> back_buffer, height |-> height, width |-> width]

new(h, w) ==
    [cells |-> vec("Dead", w * h), back_buffer |-> vec("Dead", w * h),
     height |-> h, width |-> w]

get_width(u) == u.width
get_height(u) == u.height

(* ------------------------- coordinate transforms ---------------------- *)
\* variant: column-major, row and column exchanged
coord_to_idx_swapped(u, c) == c.row + u.width * c.col
\* c.col + self.width * c.row (row-major)
coord_to_idx(u, c) == c.col + u.width * c.row

\* i / width and i % width panic when width = 0
idx_to_coords(u, i) ==
    IF u.width = 0 THEN Panic
    ELSE Ok([row |-> i \div u.width, col |-> i % u.width])

(* ------------------------------ indexing ------------------------------ *)
\* Index<usize>: &self.cells[index]
index_usize(u, i) == IF i < Len(u.cells) THEN Ok(u.cells[i + 1]) ELSE Panic

\* Index<Coord>: &self.cells[self.coord_to_idx(index)]
index(u, c) ==
    LET idx == coord_to_idx(u, c)
    IN  IF idx < Len(u.cells) THEN Ok(u.cells[idx + 1]) ELSE Panic

\* IndexMut<Coord> followed by the store of v
index_mut(u, c, v) ==
    LET idx == coord_to_idx(u, c)
    IN  IF idx < Len(u.cells) THEN Ok([u EXCEPT !.cells[idx + 1] = v]) ELSE Panic

is_alive(u, c) ==
    LET r == index(u, c) IN IF r.ok THEN Ok(is_alive_cell(r.val)) ELSE Panic

(* --------------------------- point mutation --------------------------- *)
set_pixel(u, c, val) == index_mut(u, c, val)

\* variant: stores Alive instead of the negation
toggle_pixel_set(u, c) == index_mut(u, c, "Alive")
\* self[c] = !self[c]: the read comes first
toggle_pixel(u, c) ==
    LET r == index(u, c) IN IF r.ok THEN index_mut(u, c, Not(r.val)) ELSE Panic

(* ------------------------------- resize ------------------------------- *)
min(a, b) == IF a < b THEN a ELSE b

\* variant: the scratch buffer is not reallocated
resized_keep_back_buffer(old, new_dims) ==
    [cells |-> vec("Dead", new_dims.row * new_dims.col),
     back_buffer |-> old.back_buffer,
     height |-> new_dims.row, width |-> new_dims.col]
\* the struct literal of set_dimensions (old is the clone taken before it)
resized(old, new_dims) ==
    [cells |-> vec("Dead", new_dims.row * new_dims.col),
     back_buffer |-> vec("Dead", new_dims.row * new_dims.col),
     height |-> new_dims.row, width |-> new_dims.col]

\* variant: the old flat index is reused in the new grid
copy_cell_flat(nw, old, coords) ==
    LET r == index(old, coords)
        idx == coord_to_idx(old, coords)
    IN  IF ~r.ok \/ idx >= Len(nw.cells) THEN Panic
        ELSE Ok([nw EXCEPT !.cells[idx + 1] = r.val])
\* new[coords] = old[coords]
copy_cell(nw, old, coords) ==
    LET r == index(old, coords)
    IN  IF r.ok THEN index_mut(nw, coords, r.val) ELSE Panic

RECURSIVE copy_cols(_, _, _, _)
copy_cols(r, old, old_y, old_x) ==
    IF ~r.ok \/ old_x >= min(old.width, r.val.width) THEN r
    ELSE copy_cols(copy_cell(r.val, old, Coord(old_y, old_x)), old, old_y, old_x + 1)

RECURSIVE copy_rows(_, _, _)
copy_rows(r, old, old_y) ==
    IF ~r.ok \/ old_y >= min(old.height, r.val.height) THEN r
    ELSE copy_rows(copy_cols(r, old, old_y, 0), old, old_y + 1)

set_dimensions(u, new_dims) == copy_rows(Ok(resized(u, new_dims)), u, 0)

(* --------------------------- neighbour count -------------------------- *)
Deltas == <<-1, 0, 1>>

\* i32::MAX
I32Max == 2147483647
\* x as i32: a usize up to i32::MAX keeps its value, a larger one wraps
\* (two's complement, 32 bits)
as_i32(n) == IF n <= I32Max THEN n ELSE (n - I32Max - 1) - I32Max - 1
\* v as usize, of an i32 that rem_euclid returned: never negative
as_usize(n) == n

\* i32::rem_euclid; panics when the divisor is 0
rem_euclid(a, n) == a % (IF n < 0 THEN -n ELSE n)

\* variant: the offset (0, 0) is not skipped
is_center_never(dy, dx) == FALSE
\* if dx == 0 && dy == 0 { continue; }
is_center(dy, dx) == dx = 0 /\ dy = 0

\* the two nested loops over dy and dx, k = 3 * (position of dy) + position of dx
RECURSIVE neighbor_loop(_, _, _, _)
neighbor_loop(u, c, k, cnt) ==
    IF k >= Len(Deltas) * Len(Deltas) THEN Ok(cnt)
    ELSE LET dy == Deltas[(k \div Len(Deltas)) + 1]
             dx == Deltas[(k % Len(Deltas)) + 1]
         IN  IF is_center(dy, dx) THEN neighbor_loop(u, c, k + 1, cnt)
             ELSE IF as_i32(u.width) = 0 \/ as_i32(u.height) = 0 THEN Panic
             ELSE LET new_x == as_usize(rem_euclid(as_i32(c.col) + dx, as_i32(u.width)))
                      new_y == as_usize(rem_euclid(as_i32(c.row) + dy, as_i32(u.height)))
                      r == index(u, Coord(new_y, new_x))
                  IN  IF ~r.ok THEN Panic
                      ELSE neighbor_loop(u, c, k + 1,
                                         IF is_alive_cell(r.val) THEN cnt + 1 ELSE cnt)

alive_neighbor_count(u, c) == neighbor_loop(u, c, 0, 0)

(* -------------------------------- tick -------------------------------- *)
\* variant: a Dead cell is also born with 2 live neighbours
rule_birth_on_two(current, n) ==
    IF current = "Alive" /\ n < 2 THEN "Dead"
    ELSE IF current = "Alive" /\ (n = 2 \/ n = 3) THEN "Alive"
    ELSE IF current = "Alive" /\ n > 3 THEN "Dead"
    ELSE IF current = "Dead" /\ (n = 2 \/ n = 3) THEN "Alive"
    ELSE current
\* the match of tick, arm by arm
rule(current, n) ==
    IF current = "Alive" /\ n < 2 THEN "Dead"
    ELSE IF current = "Alive" /\ (n = 2 \/ n = 3) THEN "Alive"
    ELSE IF current = "Alive" /\ n > 3 THEN "Dead"
    ELSE IF current = "Dead" /\ n = 3 THEN "Alive"
    ELSE current

\* variant: the result is stored into the live buffer too (update in place)
store_in_place(u, i, v) ==
    IF i < Len(u.back_buffer) /\ i < Len(u.cells)
    THEN Ok([u EXCEPT !.back_buffer[i + 1] = v, !.cells[i + 1] = v])
    ELSE Panic
\* self.back_buffer[i] = ...
store(u, i, v) ==
    IF i < Len(u.back_buffer) THEN Ok([u EXCEPT !.back_buffer[i + 1] = v]) ELSE Panic

\* variant: cells = back_buffer.clone() instead of the exchange
swap_by_copy(u) == [u EXCEPT !.cells = u.back_buffer]
\* swap(&mut self.cells, &mut self.back_buffer)
swap(u) == [u EXCEPT !.cells = u.back_buffer, !.back_buffer = u.cells]

RECURSIVE tick_cols(_, _, _)
tick_cols(r, y, x) ==
    IF ~r.ok \/ x >= r.val.width THEN r
    ELSE LET u == r.val
             c == Coord(y, x)
             i == coord_to_idx(u, c)
             cur == index(u, c)
             n == alive_neighbor_count(u, Coord(y, x))
         IN  IF ~cur.ok \/ ~n.ok THEN Panic
             ELSE tick_cols(store(u, i, rule(cur.val, n.val)), y, x + 1)

RECURSIVE tick_rows(_, _)
tick_rows(r, y) ==
    IF ~r.ok \/ y >= r.val.height THEN r
    ELSE tick_rows(tick_cols(r, y, 0), y + 1)

tick(u) ==
    LET r == tick_rows(Ok(u), 0) IN IF r.ok THEN Ok(swap(r.val)) ELSE Panic

(* ------------------------------- render ------------------------------- *)
\* Display for Cell
fmt_cell(c) == IF c = "Alive" THEN "BLACK_MEDIUM_SQUARE" ELSE "WHITE_MEDIUM_SQUARE"

\* variant: the inclusive range 0..=self.width * self.height
fmt_end_inclusive(u) == u.width * u.height + 1
\* the end of the range 0..self.width * self.height
fmt_end(u) == u.width * u.height

RECURSIVE fmt_loop(_, _, _)
fmt_loop(u, idx, sortida) ==
    IF idx >= fmt_end(u) THEN Ok(sortida)
    ELSE LET r == index_usize(u, idx)
         IN  IF ~r.ok \/ u.width = 0 THEN Panic
             ELSE fmt_loop(u, idx + 1,
                           IF idx % u.width = u.width - 1
                           THEN sortida \o <<fmt_cell(r.val), "\n">>
                           ELSE Append(sortida, fmt_cell(r.val)))

\* Display for Universe, and render = to_string
render(u) == fmt_loop(u, 0, <<>>)

(* ------------------------------ actions ------------------------------- *)
\* op is the call made last and how it ended; nops counts the calls.
Install(u) ==
    /\ cells' = u.cells
    /\ back_buffer' = u.back_buffer
    /\ height' = u.height
    /\ width' = u.width

\* a &mut self method returned r
Mutate(limit, name, row, col, val, r) ==
    /\ nops < limit
    /\ ~op.fault
    /\ nops' = nops + 1
    /\ op' = [name |-> name, row |-> row, col |-> col, val |-> val,
              fault |-> ~r.ok, ret |-> "unit"]
    /\ IF r.ok THEN Install(r.val)
       ELSE UNCHANGED <<cells, back_buffer, height, width>>

\* a &self method returned r
Query(limit, name, row, col, r) ==
    /\ nops < limit
    /\ ~op.fault
    /\ nops' = nops + 1
    /\ op' = [name |-> name, row |-> row, col |-> col, val |-> "Dead",
              fault |-> ~r.ok, ret |-> r.val]
    /\ UNCHANGED <<cells, back_buffer, height, width>>

Created(h, w) ==
    /\ cells = new(h, w).cells
    /\ back_buffer = new(h, w).back_buffer
    /\ height = new(h, w).height
    /\ width = new(h, w).width
    /\ op = [name |-> "new", row |-> h, col |-> w, val |-> "Dead",
             fault |-> FALSE, ret |-> "unit"]
    /\ nops = 0

Init == \E h \in 0..MaxHeight, w \in 0..MaxWidth : Created(h, w)

SetDimensions(limit, Hs, Ws) ==
    \E h \in Hs, w \in Ws :
        Mutate(limit, "set_dimensions", h, w, "Dead", set_dimensions(U, Coord(h, w)))

SetPixel(limit, Ys, Xs) ==
    \E y \in Ys, x \in Xs, v \in Cell :
        Mutate(limit, "set_pixel", y, x, v, set_pixel(U, Coord(y, x), v))

TogglePixel(limit, Ys, Xs) ==
    \E y \in Ys, x \in Xs :
        Mutate(limit, "toggle_pixel", y, x, "Dead", toggle_pixel(U, Coord(y, x)))

Tick(limit) == Mutate(limit, "tick", 0, 0, "Dead", tick(U))

IsAlive(limit, Ys, Xs) ==
    \E y \in Ys, x \in Xs :
        Query(limit, "is_alive", y, x, is_alive(U, Coord(y, x)))

Render(limit) == Query(limit, "render", 0, 0, render(U))

\* Every method, on grids of every size from 0 x 0, with coordinates in and
\* out of range.
Next ==
    \/ SetDimensions(MaxOps, 0..MaxHeight, 0..MaxWidth)
    \/ SetPixel(MaxOps, 0..MaxHeight, 0..MaxWidth)
    \/ TogglePixel(MaxOps, 0..MaxHeight, 0..MaxWidth)
    \/ Tick(MaxOps)
    \/ IsAlive(MaxOps, 0..MaxHeight, 0..MaxWidth)
    \/ Render(MaxOps)

Spec == Init /\ [][Next]_vars

\* Grids with height >= 1 and width >= 1: the caller paints live cells in
\* row-major order on the fresh grid, then advances it.
LifeInit == \E h \in 1..LifeMaxDim, w \in 1..LifeMaxDim : Created(h, w)

Paint(limit) ==
    \E y \in 0..(height - 1), x \in 0..(width - 1) :
        /\ \/ op.name = "new"
           \/ /\ op.name = "set_pixel"
              /\ coord_to_idx(U, Coord(op.row, op.col)) < coord_to_idx(U, Coord(y, x))
        /\ Mutate(limit, "set_pixel", y, x, "Alive", set_pixel(U, Coord(y, x), "Alive"))

LifeNext ==
    \/ Paint(LifeOps)
    \/ Tick(LifeOps)

SpecLife == LifeInit /\ [][LifeNext]_vars

\* Grids of at least 5 x 5, edited on the three cells (2,1), (2,2), (2,3) and
\* advanced.
BlinkerInit == \E h \in 5..BlinkerMaxDim, w \in 5..BlinkerMaxDim : Created(h, w)

BlinkerNext ==
    \/ TogglePixel(BlinkerOps, {2}, 1..3)
    \/ Tick(BlinkerOps)

SpecBlinker == BlinkerInit /\ [][BlinkerNext]_vars

(* ---------------------- vocabulary of the properties ------------------ *)
\* The cell of a row-major buffer cs of width w at row r, column c.
CellAt(cs, w, r, c) == cs[r * w + c + 1]

Coords(h, w) == (0..(h - 1)) \X (0..(w - 1))

\* The coordinates of the Alive cells of buffer cs of an h x w grid.
Live(cs, h, w) == {p \in Coords(h, w) : CellAt(cs, w, p[1], p[2]) = "Alive"}

\* The eight offsets (dy, dx).
Offsets == {d \in {-1, 0, 1} \X {-1, 0, 1} : d # <<0, 0>>}

\* The cell that offset d of (y, x) reaches on the h x w torus.
Wrapped(h, w, y, x, d) == <<(y + d[1]) % h, (x + d[2]) % w>>

\* The toroidal live-neighbour count of (y, x): the offsets that reach a live cell.
LiveOffsets(cs, h, w, y, x) ==
    Cardinality({d \in Offsets :
        CellAt(cs, w, Wrapped(h, w, y, x, d)[1], Wrapped(h, w, y, x, d)[2]) = "Alive"})

\* Conway's rule for (y, x) in generation cs.
ConwayAlive(cs, h, w, y, x) ==
    LET n == LiveOffsets(cs, h, w, y, x)
    IN  \/ CellAt(cs, w, y, x) = "Alive" /\ n \in {2, 3}
        \/ CellAt(cs, w, y, x) = "Dead" /\ n = 3

\* The Universe after the step.
NextU == [cells |-> cells', back_buffer |-> back_buffer', height |-> height', width |-> width']

(* -------------------------------- C1 ---------------------------------- *)
\* C1: on a grid with height >= 1 and width >= 1, one tick() replaces cells by
\* the next Conway generation of the cells it started from: the new cell at
\* (y, x) is Alive iff the old one was Alive with 2 or 3 live toroidal
\* neighbours or Dead with exactly 3, whatever back_buffer held; the
\* dimensions stay and tick does not fault.
C1_TickIsNextGeneration ==
    [][(op'.name = "tick" /\ height >= 1 /\ width >= 1) =>
        /\ ~op'.fault
        /\ height' = height /\ width' = width
        /\ Len(cells') = height * width
        /\ \A p \in Coords(height, width) :
              (CellAt(cells', width, p[1], p[2]) = "Alive")
                  <=> ConwayAlive(cells, height, width, p[1], p[2])]_vars

\* A tick on a 3 x 3 or larger grid that started from a fully live grid (which
\* only an earlier tick's births can have produced, so back_buffer held a
\* stale generation) and let every cell die of overpopulation.
C1_Witness ==
    /\ op.name = "tick" /\ ~op.fault
    /\ height >= 3 /\ width >= 3
    /\ Live(back_buffer, height, width) = Coords(height, width)
    /\ Live(cells, height, width) = {}

(* -------------------------------- C7 ---------------------------------- *)
Neighbours(h, w, y, x) == {Wrapped(h, w, y, x, d) : d \in Offsets}

\* The eight wrapped coordinates of (y, x) are in range, pairwise distinct and
\* none is (y, x).
EightDistinct(h, w, y, x) ==
    /\ Neighbours(h, w, y, x) \subseteq Coords(h, w)
    /\ Cardinality(Neighbours(h, w, y, x)) = 8
    /\ <<y, x>> \notin Neighbours(h, w, y, x)

\* alive_neighbor_count(y, x) succeeds and returns n.
Counted(y, x, n) ==
    LET r == alive_neighbor_count(U, Coord(y, x)) IN r.ok /\ r.val = n

\* C7 as stated: in every grid with height >= 1 and width >= 1 every cell has
\* 8 pairwise distinct neighbours, none the cell itself, and
\* alive_neighbor_count returns the number of distinct live adjacent cells,
\* a value in [0, 8].
C7_EightNeighboursFromOne ==
    (height >= 1 /\ width >= 1) =>
        LET live == Live(cells, height, width)
        IN  \A p \in Coords(height, width) :
                LET n == Cardinality(Neighbours(height, width, p[1], p[2]) \cap live)
                IN  /\ EightDistinct(height, width, p[1], p[2])
                    /\ n \in 0..8
                    /\ Counted(p[1], p[2], n)

\* C7 as amended: with height >= 3 and width >= 3 the eight wrapped
\* coordinates are in range, pairwise distinct and not the cell, and
\* alive_neighbor_count is the number of distinct live adjacent cells; with
\* height >= 1 and width >= 1 they are in range and alive_neighbor_count is
\* the number of offsets that reach a live cell; the count is in [0, 8].
C7_EightNeighboursFromThree ==
    (height >= 1 /\ width >= 1) =>
        LET live == Live(cells, height, width)
        IN  \A p \in Coords(height, width) :
                LET nb == Neighbours(height, width, p[1], p[2])
                    n == LiveOffsets(cells, height, width, p[1], p[2])
                IN  /\ nb \subseteq Coords(height, width)
                    /\ n \in 0..8
                    /\ Counted(p[1], p[2], n)
                    /\ (height >= 3 /\ width >= 3) =>
                          /\ Cardinality(nb) = 8
                          /\ p \notin nb
                          /\ n = Cardinality(nb \cap live)

\* A grid of at least 3 x 3 after a tick, where the corner (0, 0) is alive and
\* counts a live neighbour across both edges.
C7_Witness ==
    /\ op.name = "tick" /\ ~op.fault
    /\ height >= 3 /\ width >= 3
    /\ CellAt(cells, width, 0, 0) = "Alive"
    /\ CellAt(cells, width, height - 1, width - 1) = "Alive"
    /\ \E n \in 1..8 : Counted(0, 0, n)

(* -------------------------------- C8 ---------------------------------- *)
Horizontal == {<<2, 1>>, <<2, 2>>, <<2, 3>>}
Vertical == {<<1, 2>>, <<2, 2>>, <<3, 2>>}

\* C8: on a grid with height >= 5 and width >= 5, tick() turns the horizontal
\* triple (2,1),(2,2),(2,3) into exactly the vertical triple (1,2),(2,2),(3,2)
\* and the vertical triple back into exactly the horizontal one, so ticks
\* alternate between the two.
C8_BlinkerPeriodTwo ==
    [][(op'.name = "tick" /\ height >= 5 /\ width >= 5) =>
        /\ Live(cells, height, width) = Horizontal
              => (~op'.fault /\ Live(cells', height', width') = Vertical)
        /\ Live(cells, height, width) = Vertical
              => (~op'.fault /\ Live(cells', height', width') = Horizontal)]_vars

\* After three ticks of the painted horizontal triple: the grid is vertical
\* again and the generation before it was horizontal.
C8_Witness ==
    /\ op.name = "tick" /\ ~op.fault /\ nops = 6
    /\ height >= 5 /\ width >= 5
    /\ Live(cells, height, width) = Vertical
    /\ Live(back_buffer, height, width) = Horizontal

(* -------------------------------- C2 ---------------------------------- *)
\* C2: set_dimensions(newHeight, newWidth) does not fault; afterwards
\* get_height and get_width return newHeight and newWidth, and every (r, c)
\* with r < newHeight and c < newWidth holds the old cell at (r, c) when
\* r < oldHeight and c < oldWidth, and Dead otherwise.
C2_ResizePreservesOverlap ==
    [][op'.name = "set_dimensions" =>
        /\ ~op'.fault
        /\ get_height(NextU) = op'.row
        /\ get_width(NextU) = op'.col
        /\ Len(cells') = op'.row * op'.col
        /\ \A p \in Coords(op'.row, op'.col) :
              CellAt(cells', op'.col, p[1], p[2])
                  = IF p[1] < height /\ p[2] < width
                    THEN CellAt(cells, width, p[1], p[2])
                    ELSE "Dead"]_vars

\* A resize of a painted grid to 2 x 1 that kept the live cell (1, 0), which
\* only the old grid can have held.
C2_Witness ==
    /\ op.name = "set_dimensions" /\ ~op.fault
    /\ height = 2 /\ width = 1
    /\ CellAt(cells, width, 1, 0) = "Alive"

(* -------------------------------- C3 ---------------------------------- *)
\* C3: in every reachable state (zero dimensions included)
\* cells.length = height * width and back_buffer.length = cells.length.
C3_BufferLengths ==
    /\ Len(cells) = height * width
    /\ Len(back_buffer) = Len(cells)

\* A painted grid resized to several cells, a live cell kept.
C3_Witness ==
    /\ op.name = "set_dimensions" /\ ~op.fault
    /\ nops >= 2
    /\ Len(cells) >= 2
    /\ Live(cells, height, width) # {}

(* -------------------------------- C4 ---------------------------------- *)
\* C4: is_alive, set_pixel and toggle_pixel given a coordinate with
\* row >= height or col >= width fault (and so neither read nor modify a
\* cell), also when col + width * row is below height * width.
C4_OutOfRangeFaults ==
    (/\ op.name \in {"is_alive", "set_pixel", "toggle_pixel"}
     /\ (op.row >= height \/ op.col >= width))
        => op.fault

(* -------------------------------- C5 ---------------------------------- *)
\* C5: with width >= 1, idx_to_coords maps every i < height * width to a
\* coordinate with row < height and col < width that coord_to_idx maps back
\* to i, and coord_to_idx maps every coordinate with row < height and
\* col < width to an index below height * width that idx_to_coords maps back
\* to it.
C5_CoordIdxBijection ==
    width >= 1 =>
        /\ \A i \in 0..(height * width - 1) :
              LET c == idx_to_coords(U, i)
              IN  /\ c.ok
                  /\ c.val.row < height /\ c.val.col < width
                  /\ coord_to_idx(U, c.val) = i
        /\ \A p \in Coords(height, width) :
              LET i == coord_to_idx(U, Coord(p[1], p[2]))
              IN  /\ i < height * width
                  /\ idx_to_coords(U, i).ok
                  /\ idx_to_coords(U, i).val = Coord(p[1], p[2])

\* A grid of several rows and several columns.
C5_Witness == height >= 2 /\ width >= 2 /\ nops >= 1

(* -------------------------------- C6 ---------------------------------- *)
\* C6: set_pixel(c, v) and toggle_pixel(c) with row < height and col < width
\* do not fault and change only the cell at c, to v and to its negation; every
\* other cell, height and width are unchanged.
C6_PointMutationFrame ==
    [][(/\ op'.name \in {"set_pixel", "toggle_pixel"}
        /\ op'.row < height /\ op'.col < width) =>
        /\ ~op'.fault
        /\ height' = height /\ width' = width
        /\ Len(cells') = Len(cells)
        /\ \A p \in Coords(height, width) :
              CellAt(cells', width, p[1], p[2])
                  = IF p # <<op'.row, op'.col>> THEN CellAt(cells, width, p[1], p[2])
                    ELSE IF op'.name = "set_pixel" THEN op'.val
                    ELSE IF CellAt(cells, width, p[1], p[2]) = "Alive" THEN "Dead"
                    ELSE "Alive"]_vars

\* toggle_pixel turned a live cell Dead next to a cell that stayed Alive.
C6_Witness ==
    /\ op.name = "toggle_pixel" /\ ~op.fault
    /\ op.row < height /\ op.col < width
    /\ CellAt(cells, width, op.row, op.col) = "Dead"
    /\ nops >= 3
    /\ Live(cells, height, width) # {}

(* -------------------------------- C9 ---------------------------------- *)
\* C9: between operations back_buffer holds the same cell values as cells.
C9_BackBufferEqualsCells == back_buffer = cells

\* C9 as amended: back_buffer holds the same values as cells right after
\* create only; set_pixel, toggle_pixel, is_alive and render leave it as it
\* was, set_dimensions leaves it all Dead (with the new length), and tick()
\* leaves in it the generation tick started from.
C9_BackBufferAfterEachCall ==
    /\ [](op.name = "new" => back_buffer = cells)
    /\ [][/\ (op'.name = "tick" /\ ~op'.fault) => back_buffer' = cells
          /\ op'.name \in {"set_pixel", "toggle_pixel", "is_alive", "render"}
                => back_buffer' = back_buffer
          /\ (op'.name = "set_dimensions" /\ ~op'.fault)
                => back_buffer' = [i \in 1..(op'.row * op'.col) |-> "Dead"]]_vars

\* A tick after which back_buffer differs from cells.
C9_Witness ==
    /\ op.name = "tick" /\ ~op.fault
    /\ back_buffer # cells

(* -------------------------------- C10 --------------------------------- *)
Degenerate == height = 0 \/ width = 0

\* C10: new and set_dimensions with height = 0 or width = 0 do not fault and
\* yield a grid with no cells; on such a grid tick(), render() and
\* set_dimensions do not fault, tick() leaves the grid unchanged, render()
\* returns the empty string and a resize to positive dimensions yields an
\* all-Dead grid.
C10_ZeroDimensions ==
    /\ []((op.name \in {"new", "set_dimensions"} /\ (op.row = 0 \/ op.col = 0)) =>
            /\ ~op.fault
            /\ height = op.row /\ width = op.col
            /\ cells = <<>>)
    /\ [][(Degenerate /\ op'.name \in {"tick", "render", "set_dimensions"}) =>
            /\ ~op'.fault
            /\ op'.name = "tick" =>
                  cells' = cells /\ height' = height /\ width' = width
            /\ op'.name = "render" => op'.ret = <<>>
            /\ op'.name = "set_dimensions" =>
                  /\ height' = op'.row /\ width' = op'.col
                  /\ cells' = [i \in 1..(op'.row * op'.col) |-> "Dead"]]_vars

\* render() returned on a grid with rows but no columns that was reached by
\* a resize.
C10_Witness ==
    /\ op.name = "render" /\ ~op.fault
    /\ height >= 1 /\ width = 0
    /\ nops >= 2

====
